---- MODULE Spec2Model ----
(***************************************************************************)
(* Model of deepchem_server/core/docking.py: generate_pose, the VINA       *)
(* docking orchestration.  One invocation is a sequential process whose    *)
(* position (pc) walks the statements of the function; the datastore, the  *)
(* pose generator, the progress reporter and tempfile are collaborators    *)
(* whose outcomes (return value or raised exception) are chosen            *)
(* nondeterministically at the call.                                       *)
(***************************************************************************)
EXTENDS Integers, Sequences, FiniteSets, TLC

\* ------------------------------------------------------------------ bounds
\* Largest number of complexes / scores the pose generator returns.
MaxPoses == 2
\* Largest requested num_modes besides the default.
MaxModes == 3
\* Largest number of complexes / scores returned in the concurrent runs.
MaxConcurrentPoses == 1

\* ------------------------------------------------------- program constants
DefaultExhaustiveness == 10
DefaultNumModes == 9

\* Python's None.
None == "None"

\* Invocations of generate_pose.
Invocations == {1, 2}

\* Values of the address arguments: absent, empty, or a datastore address.
ProteinAddresses == {None, "", "p1"}
LigandAddresses == {None, "", "l1"}
NumModesValues == (-1 .. MaxModes) \cup {DefaultNumModes}
\* Addresses upload_data_from_memory can return (None: no address).
UploadAddresses == {None, "a1", "a2"}
\* Names tempfile can give a fresh directory.
DirNames == {"tmp1", "tmp2"}
\* Scores as the generator returns them: a numeric type and a value.
ScoreVals == {[ty |-> "numpy.float64", v |-> -7], [ty |-> "float", v |-> -6]}
\* Exceptions (subclasses of Exception) a collaborator can raise.
NoException == [type |-> "", msg |-> ""]
CollabErrors == {[type |-> "OSError", msg |-> "storage error", context |-> NoException],
                 [type |-> "RuntimeError", msg |-> "boom", context |-> NoException]}

VARIABLES
  datastore,        \* config.get_datastore(): None or the datastore
  req,              \* the arguments of each invocation
  pc,               \* the position of each invocation
  tempdir,          \* tempdir.name of each invocation, None before line 46
  finalizer,        \* whether the TemporaryDirectory's finalizer is still armed
  fs,               \* the filesystem: the set of existing paths
  store,            \* the datastore's uploaded objects
  trace,            \* the collaborator calls each invocation made, in order
  complexes, scores, actual_modes, scores_formatted, results, result_address,
  ret,              \* the value returned to the caller
  err,              \* the exception that reached the caller
  failed_at         \* the position at which the first exception was raised

locals == <<complexes, scores, actual_modes, scores_formatted, results, result_address>>
vars == <<datastore, req, pc, tempdir, finalizer, fs, store, trace, locals, ret, err, failed_at>>

\* ------------------------------------------------------------- pure helpers

\* Python truthiness of a str-or-None value (`not x` is its negation).
TruthyStr(x) == x # None /\ x # ""
\* Python truthiness of a sequence.
TruthySeq(s) == Len(s) > 0

\* min() of three integers.
Min3(a, b, c) == IF a <= b /\ a <= c THEN a ELSE IF b <= c THEN b ELSE c

\* os.path.join(dir, name)
PathJoin(d, name) == <<d, name>>

\* float(x)
Float(x) == [ty |-> "float", v |-> x.v]

\* 'mode %s' % n
ModeKey(n) == "mode " \o ToString(n)

\* d[k] = v on an insertion-ordered dict, kept as a sequence of <<key, value>>.
DictSet(d, k, v) ==
  IF \E j \in DOMAIN d : d[j][1] = k
  THEN [j \in DOMAIN d |-> IF d[j][1] = k THEN <<k, v>> ELSE d[j]]
  ELSE Append(d, <<k, v>>)

\* The loop of lines 81-83, from index i (0-based) up to range(n).
RECURSIVE FormatLoop(_, _, _, _)
FormatLoop(d, s, i, n) ==
  IF i >= n THEN d
  ELSE FormatLoop(DictSet(d, ModeKey(i + 1), [affinity |-> Float(s[i + 1])]), s, i + 1, n)

\* FormatScores with 0-based keys ('mode %s' % i).
RECURSIVE FormatLoopZeroBased(_, _, _, _)
FormatLoopZeroBased(d, s, i, n) ==
  IF i >= n THEN d
  ELSE FormatLoopZeroBased(DictSet(d, ModeKey(i), [affinity |-> Float(s[i + 1])]), s, i + 1, n)

FormatScoresZeroBased(s, n) == FormatLoopZeroBased(<<>>, s, 0, n)

\* lines 81-83: scores_formatted
FormatScores(s, n) == FormatLoop(<<>>, s, 0, n)

\* MakeResults with complexes_count clamped like num_modes.
MakeResultsClampedCount(n, sf, c) ==
  [docking_method |-> "VINA", num_modes |-> n, scores |-> sf,
   complexes_count |-> n, message |-> "VINA docking completed successfully"]

\* The results dict of lines 85-91.
MakeResults(n, sf, c) ==
  [docking_method |-> "VINA", num_modes |-> n, scores |-> sf,
   complexes_count |-> Len(c), message |-> "VINA docking completed successfully"]

\* Wrap with the prefix left out.
WrapNoPrefix(e) == [type |-> "Exception", msg |-> e.msg, context |-> e]

\* The exception the handler of lines 105-106 raises for e.
\* (e stays reachable from it as its __context__).
Wrap(e) == [type |-> "Exception", msg |-> "VINA docking failed: " \o e.msg, context |-> e]

\* raise ValueError(msg)
ValueError(m) == [type |-> "ValueError", msg |-> m, context |-> NoException]

\* TemporaryDirectory.cleanup(): remove the directory and all below it.
Cleanup(f, d) == {p \in f : p[1] # d}

\* All sequences over S of length at most n.
SeqsUpTo(S, n) == UNION {[1 .. m -> S] : m \in 0 .. n}

\* ---------------------------------------------------------------- requests
Requests ==
  [protein_address : ProteinAddresses, ligand_address : LigandAddresses,
   output : {"out"}, exhaustiveness : {DefaultExhaustiveness},
   num_modes : NumModesValues]

DefaultRequest ==
  [protein_address |-> "p1", ligand_address |-> "l1", output |-> "out",
   exhaustiveness |-> DefaultExhaustiveness, num_modes |-> DefaultNumModes]

\* The invocations that Spec runs (the others are never called).
Started == {1}

\* Positions inside the `with tempdir as tmp:` block (lines 59-103).
WithBlock == {"log40", "generate", "validate", "log50", "log60", "format",
              "log90", "upload", "check_upload", "log100", "return"}
InWith(label) == label \in WithBlock

\* LogSites with the percentages of lines 77 and 79 exchanged.
LogSitesExchanged ==
  [log10 |-> [pct |-> 10, next |-> "dl_protein"],
   log20 |-> [pct |-> 20, next |-> "dl_ligand"],
   log30 |-> [pct |-> 30, next |-> "new_pg"],
   log40 |-> [pct |-> 40, next |-> "generate"],
   log50 |-> [pct |-> 60, next |-> "log60"],
   log60 |-> [pct |-> 50, next |-> "format"],
   log90 |-> [pct |-> 90, next |-> "upload"],
   log100 |-> [pct |-> 100, next |-> "return"]]

\* The log_progress call sites: percent reported and the position that follows.
LogSites ==
  [log10 |-> [pct |-> 10, next |-> "dl_protein"],
   log20 |-> [pct |-> 20, next |-> "dl_ligand"],
   log30 |-> [pct |-> 30, next |-> "new_pg"],
   log40 |-> [pct |-> 40, next |-> "generate"],
   log50 |-> [pct |-> 50, next |-> "log60"],
   log60 |-> [pct |-> 60, next |-> "format"],
   log90 |-> [pct |-> 90, next |-> "upload"],
   log100 |-> [pct |-> 100, next |-> "return"]]

\* The message of the log_progress call at a site.
LogMessage(i, label) ==
  CASE label = "log10" -> "downloading protein from " \o req[i].protein_address
    [] label = "log20" -> "downloading ligand from " \o req[i].ligand_address
    [] label = "log30" -> "initializing VINA pose generator"
    [] label = "log40" -> "generating " \o ToString(req[i].num_modes) \o " poses with VINA"
    [] label = "log50" -> "generated " \o ToString(actual_modes[i]) \o " valid poses"
    [] label = "log60" -> "preparing results"
    [] label = "log90" -> "uploading results summary"
    [] label = "log100" -> "VINA docking completed successfully"

\* One collaborator call, as recorded in trace: where it was made, its arguments,
\* whether it returned (ok) or raised, and what it returned.
Call(i, op, args, ok, result) ==
  [at |-> pc[i], op |-> op, args |-> args, ok |-> ok, result |-> result]

Init ==
  /\ datastore \in {None, "ds"}
  /\ req \in [Invocations -> Requests]
  /\ \A i \in Invocations \ Started : req[i] = DefaultRequest
  /\ pc = [i \in Invocations |-> IF i \in Started THEN "start" ELSE "idle"]
  /\ tempdir = [i \in Invocations |-> None]
  /\ finalizer = [i \in Invocations |-> FALSE]
  /\ fs = {}
  /\ store = {}
  /\ trace = [i \in Invocations |-> <<>>]
  /\ complexes = [i \in Invocations |-> <<>>]
  /\ scores = [i \in Invocations |-> <<>>]
  /\ actual_modes = [i \in Invocations |-> 0]
  /\ scores_formatted = [i \in Invocations |-> <<>>]
  /\ results = [i \in Invocations |-> MakeResults(0, <<>>, <<>>)]
  /\ result_address = [i \in Invocations |-> None]
  /\ ret = [i \in Invocations |-> None]
  /\ err = [i \in Invocations |-> NoException]
  /\ failed_at = [i \in Invocations |-> ""]

Goto(i, label) == pc' = [pc EXCEPT ![i] = label]

\* An exception raised before the try block (lines 38-43) reaches the caller as is.
RaiseUncaught(i, e) ==
  /\ pc' = [pc EXCEPT ![i] = "raised"]
  /\ err' = [err EXCEPT ![i] = e]
  /\ failed_at' = [failed_at EXCEPT ![i] = pc[i]]

\* An exception e raised inside the try block (lines 45-103): leaving the with
\* block, if it was entered, runs tempdir.__exit__ (cleanup); then the handler of
\* lines 105-106 raises the wrapped exception.
Raise(i, e) ==
  /\ pc' = [pc EXCEPT ![i] = "raised"]
  /\ err' = [err EXCEPT ![i] = Wrap(e)]
  /\ failed_at' = [failed_at EXCEPT ![i] = pc[i]]
  /\ fs' = IF InWith(pc[i]) THEN Cleanup(fs, tempdir[i]) ELSE fs
  /\ finalizer' = IF InWith(pc[i]) THEN [finalizer EXCEPT ![i] = FALSE] ELSE finalizer

\* CheckDatastore with the address check of line 42 made before it.
CheckDatastoreAfterInputs(i) ==
  /\ pc[i] = "start"
  /\ \/ /\ ~TruthyStr(req[i].protein_address) \/ ~TruthyStr(req[i].ligand_address)
        /\ RaiseUncaught(i, ValueError("Protein and/or ligand input is required."))
     \/ /\ TruthyStr(req[i].protein_address) /\ TruthyStr(req[i].ligand_address)
        /\ datastore = None
        /\ RaiseUncaught(i, ValueError("Datastore not set"))
     \/ /\ TruthyStr(req[i].protein_address) /\ TruthyStr(req[i].ligand_address)
        /\ datastore # None
        /\ Goto(i, "check_inputs")
        /\ UNCHANGED <<err, failed_at>>
  /\ UNCHANGED <<datastore, req, tempdir, finalizer, fs, store, trace, locals, ret>>

\* lines 38-40
CheckDatastore(i) ==
  /\ pc[i] = "start"
  /\ \/ datastore = None /\ RaiseUncaught(i, ValueError("Datastore not set"))
     \/ datastore # None /\ Goto(i, "check_inputs") /\ UNCHANGED <<err, failed_at>>
  /\ UNCHANGED <<datastore, req, tempdir, finalizer, fs, store, trace, locals, ret>>

\* InputsMissing with `and` for `or`.
InputsMissingBoth(p, l) == ~TruthyStr(p) /\ ~TruthyStr(l)

\* line 42: not protein_address or not ligand_address
InputsMissing(p, l) == ~TruthyStr(p) \/ ~TruthyStr(l)

\* lines 42-43
CheckInputs(i) ==
  /\ pc[i] = "check_inputs"
  /\ \/ /\ InputsMissing(req[i].protein_address, req[i].ligand_address)
        /\ RaiseUncaught(i, ValueError("Protein and/or ligand input is required."))
     \/ /\ ~InputsMissing(req[i].protein_address, req[i].ligand_address)
        /\ Goto(i, "mktemp")
        /\ UNCHANGED <<err, failed_at>>
  /\ UNCHANGED <<datastore, req, tempdir, finalizer, fs, store, trace, locals, ret>>

\* MakeTempdir with one fixed directory name for every invocation.
MakeTempdirFixedName(i) ==
  /\ pc[i] = "mktemp"
  /\ fs' = fs \cup {<<"tmp1">>}
  /\ tempdir' = [tempdir EXCEPT ![i] = "tmp1"]
  /\ finalizer' = [finalizer EXCEPT ![i] = TRUE]
  /\ trace' = [trace EXCEPT ![i] = Append(@, Call(i, "TemporaryDirectory", <<>>, TRUE, None))]
  /\ Goto(i, "log10")
  /\ UNCHANGED <<datastore, req, store, locals, ret, err, failed_at>>

\* line 46: tempfile.TemporaryDirectory() makes a directory under a fresh name and
\* arms a finalizer that removes it when the object is collected.
MakeTempdir(i) ==
  /\ pc[i] = "mktemp"
  /\ \/ \E d \in DirNames :
          /\ <<d>> \notin fs
          /\ fs' = fs \cup {<<d>>}
          /\ tempdir' = [tempdir EXCEPT ![i] = d]
          /\ finalizer' = [finalizer EXCEPT ![i] = TRUE]
          /\ trace' = [trace EXCEPT ![i] = Append(@, Call(i, "TemporaryDirectory", <<>>, TRUE, None))]
          /\ Goto(i, "log10")
          /\ UNCHANGED <<err, failed_at>>
     \/ \E e \in CollabErrors :
          /\ Raise(i, e)
          /\ trace' = [trace EXCEPT ![i] = Append(@, Call(i, "TemporaryDirectory", <<>>, FALSE, None))]
          /\ UNCHANGED tempdir
  /\ UNCHANGED <<datastore, req, store, locals, ret>>

\* lines 48, 52, 56, 60, 77, 79, 93, 102: log_progress('docking', pct, message)
LogProgress(i) ==
  /\ pc[i] \in DOMAIN LogSites
  /\ LET site == LogSites[pc[i]]
         args == <<"docking", site.pct, LogMessage(i, pc[i])>>
     IN \/ /\ trace' = [trace EXCEPT ![i] = Append(@, Call(i, "log_progress", args, TRUE, None))]
           /\ Goto(i, site.next)
           /\ UNCHANGED <<err, failed_at, fs, finalizer>>
        \/ \E e \in CollabErrors :
             /\ trace' = [trace EXCEPT ![i] = Append(@, Call(i, "log_progress", args, FALSE, None))]
             /\ Raise(i, e)
  /\ UNCHANGED <<datastore, req, tempdir, store, locals, ret>>

\* DownloadProtein that tries again after a failed download.
DownloadProteinRetry(i) ==
  /\ pc[i] = "dl_protein"
  /\ LET protein_path == PathJoin(tempdir[i], "protein.pdb")
         args == <<req[i].protein_address, protein_path>>
     IN \/ /\ trace' = [trace EXCEPT ![i] = Append(@, Call(i, "download_object", args, TRUE, None))]
           /\ fs' = fs \cup {protein_path}
           /\ Goto(i, "log20")
        \/ /\ trace' = [trace EXCEPT ![i] = Append(@, Call(i, "download_object", args, FALSE, None))]
           /\ UNCHANGED <<pc, fs>>
  /\ UNCHANGED <<datastore, req, tempdir, store, locals, ret, err, failed_at, finalizer>>

\* lines 49-50: datastore.download_object(protein_address, protein_path)
DownloadProtein(i) ==
  /\ pc[i] = "dl_protein"
  /\ LET protein_path == PathJoin(tempdir[i], "protein.pdb")
         args == <<req[i].protein_address, protein_path>>
     IN \/ /\ trace' = [trace EXCEPT ![i] = Append(@, Call(i, "download_object", args, TRUE, None))]
           /\ fs' = fs \cup {protein_path}
           /\ Goto(i, "log20")
           /\ UNCHANGED <<err, failed_at, finalizer>>
        \/ \E e \in CollabErrors :
             /\ trace' = [trace EXCEPT ![i] = Append(@, Call(i, "download_object", args, FALSE, None))]
             /\ Raise(i, e)
  /\ UNCHANGED <<datastore, req, tempdir, store, locals, ret>>

\* lines 53-54: datastore.download_object(ligand_address, ligand_path)
DownloadLigand(i) ==
  /\ pc[i] = "dl_ligand"
  /\ LET ligand_path == PathJoin(tempdir[i], "ligand.sdf")
         args == <<req[i].ligand_address, ligand_path>>
     IN \/ /\ trace' = [trace EXCEPT ![i] = Append(@, Call(i, "download_object", args, TRUE, None))]
           /\ fs' = fs \cup {ligand_path}
           /\ Goto(i, "log30")
           /\ UNCHANGED <<err, failed_at, finalizer>>
        \/ \E e \in CollabErrors :
             /\ trace' = [trace EXCEPT ![i] = Append(@, Call(i, "download_object", args, FALSE, None))]
             /\ Raise(i, e)
  /\ UNCHANGED <<datastore, req, tempdir, store, locals, ret>>

\* line 57: pg = VinaPoseGenerator()
NewPoseGenerator(i) ==
  /\ pc[i] = "new_pg"
  /\ \/ /\ trace' = [trace EXCEPT ![i] = Append(@, Call(i, "VinaPoseGenerator", <<>>, TRUE, None))]
        /\ Goto(i, "log40")
        /\ UNCHANGED <<err, failed_at, fs, finalizer>>
     \/ \E e \in CollabErrors :
          /\ trace' = [trace EXCEPT ![i] = Append(@, Call(i, "VinaPoseGenerator", <<>>, FALSE, None))]
          /\ Raise(i, e)
  /\ UNCHANGED <<datastore, req, tempdir, store, locals, ret>>

\* lines 62-66: complexes, scores = pg.generate_poses(...), which writes its pose
\* files under out_dir and returns any number of complexes and of scores.
GeneratePoses(i) ==
  /\ pc[i] = "generate"
  /\ LET args == <<<<PathJoin(tempdir[i], "protein.pdb"), PathJoin(tempdir[i], "ligand.sdf")>>,
                   req[i].exhaustiveness, req[i].num_modes, tempdir[i], TRUE>>
     IN \/ \E k \in 0 .. MaxPoses, s \in SeqsUpTo(ScoreVals, MaxPoses) :
             LET c == [j \in 1 .. k |-> <<"complex", j>>]
             IN /\ trace' = [trace EXCEPT
                               ![i] = Append(@, Call(i, "generate_poses", args, TRUE, <<c, s>>))]
                /\ complexes' = [complexes EXCEPT ![i] = c]
                /\ scores' = [scores EXCEPT ![i] = s]
                /\ fs' = fs \cup {PathJoin(tempdir[i], "poses")}
                /\ Goto(i, "validate")
                /\ UNCHANGED <<err, failed_at, finalizer>>
        \/ \E e \in CollabErrors :
             /\ trace' = [trace EXCEPT ![i] = Append(@, Call(i, "generate_poses", args, FALSE, None))]
             /\ Raise(i, e)
             /\ UNCHANGED <<complexes, scores>>
  /\ UNCHANGED <<datastore, req, tempdir, store, actual_modes, scores_formatted,
                 results, result_address, ret>>

\* EmptyResults that looks at the complexes only.
EmptyResultsComplexesOnly(c, s) == ~TruthySeq(c)

\* line 69: not complexes or not scores
EmptyResults(c, s) == ~TruthySeq(c) \/ ~TruthySeq(s)

\* ActualModes that leaves len(complexes) out of the min.
ActualModesNoComplexes(n, c, s) == IF n <= Len(s) THEN n ELSE Len(s)

\* line 73: min(num_modes, len(complexes), len(scores))
ActualModes(n, c, s) == Min3(n, Len(c), Len(s))

\* NoValidModes that tests for a negative count.
NoValidModesNegative(m) == m < 0

\* line 74: actual_modes == 0
NoValidModes(m) == m = 0

\* lines 69-75: validation of what the generator returned
ValidateResults(i) ==
  /\ pc[i] = "validate"
  /\ \/ /\ EmptyResults(complexes[i], scores[i])
        /\ Raise(i, ValueError("No docking poses or scores generated"))
        /\ UNCHANGED actual_modes
     \/ /\ ~EmptyResults(complexes[i], scores[i])
        /\ actual_modes' = [actual_modes EXCEPT
                              ![i] = ActualModes(req[i].num_modes, complexes[i], scores[i])]
        /\ \/ /\ NoValidModes(actual_modes'[i])
              /\ Raise(i, ValueError("No valid docking results generated"))
           \/ /\ ~NoValidModes(actual_modes'[i])
              /\ Goto(i, "log50")
              /\ UNCHANGED <<err, failed_at, fs, finalizer>>
  /\ UNCHANGED <<datastore, req, tempdir, store, trace, complexes, scores,
                 scores_formatted, results, result_address, ret>>

\* FormatResults with the with block ending once the results are assembled.
FormatResultsLeavesWith(i) ==
  /\ pc[i] = "format"
  /\ scores_formatted' = [scores_formatted EXCEPT ![i] = FormatScores(scores[i], actual_modes[i])]
  /\ results' = [results EXCEPT
                   ![i] = MakeResults(actual_modes[i], scores_formatted'[i], complexes[i])]
  /\ fs' = Cleanup(fs, tempdir[i])
  /\ finalizer' = [finalizer EXCEPT ![i] = FALSE]
  /\ Goto(i, "log90")
  /\ UNCHANGED <<datastore, req, tempdir, store, trace, complexes, scores,
                 actual_modes, result_address, ret, err, failed_at>>

\* lines 81-91: scores_formatted and results
FormatResults(i) ==
  /\ pc[i] = "format"
  /\ scores_formatted' = [scores_formatted EXCEPT ![i] = FormatScores(scores[i], actual_modes[i])]
  /\ results' = [results EXCEPT
                   ![i] = MakeResults(actual_modes[i], scores_formatted'[i], complexes[i])]
  /\ Goto(i, "log90")
  /\ UNCHANGED <<datastore, req, tempdir, finalizer, fs, store, trace, complexes, scores,
                 actual_modes, result_address, ret, err, failed_at>>

\* line 95: DataCard(address='', file_type='json', data_type='docking results')
DataCard == [address |-> "", file_type |-> "json", data_type |-> "docking results"]

\* lines 95-97: result_address = datastore.upload_data_from_memory(results, name, card);
\* the datastore holds the object when it returns an address.
Upload(i) ==
  /\ pc[i] = "upload"
  /\ LET name == req[i].output \o "_results.json"
         args == <<results[i], name, DataCard>>
     IN \/ \E a \in UploadAddresses :
             /\ trace' = [trace EXCEPT ![i] = Append(@, Call(i, "upload_data_from_memory", args, TRUE, a))]
             /\ result_address' = [result_address EXCEPT ![i] = a]
             /\ store' = IF a = None THEN store
                         ELSE store \cup {[address |-> a, name |-> name, data |-> results[i],
                                            card |-> DataCard, by |-> i]}
             /\ Goto(i, "check_upload")
             /\ UNCHANGED <<err, failed_at, fs, finalizer>>
        \/ \E e \in CollabErrors :
             /\ trace' = [trace EXCEPT ![i] = Append(@, Call(i, "upload_data_from_memory", args, FALSE, None))]
             /\ Raise(i, e)
             /\ UNCHANGED <<store, result_address>>
  /\ UNCHANGED <<datastore, req, tempdir, complexes, scores, actual_modes,
                 scores_formatted, results, ret>>

\* UploadFailed that tests for an empty address instead of None.
UploadFailedEmpty(a) == a = ""

\* line 99: result_address is None
UploadFailed(a) == a = None

\* lines 99-100
CheckUpload(i) ==
  /\ pc[i] = "check_upload"
  /\ \/ /\ UploadFailed(result_address[i])
        /\ Raise(i, ValueError("Failed to upload docking results to datastore"))
     \/ /\ ~UploadFailed(result_address[i])
        /\ Goto(i, "log100")
        /\ UNCHANGED <<err, failed_at, fs, finalizer>>
  /\ UNCHANGED <<datastore, req, tempdir, store, trace, locals, ret>>

\* line 103: return result_address, leaving the with block (tempdir.__exit__)
Return(i) ==
  /\ pc[i] = "return"
  /\ ret' = [ret EXCEPT ![i] = result_address[i]]
  /\ fs' = Cleanup(fs, tempdir[i])
  /\ finalizer' = [finalizer EXCEPT ![i] = FALSE]
  /\ Goto(i, "returned")
  /\ UNCHANGED <<datastore, req, tempdir, store, trace, locals, err, failed_at>>

\* line 46: a TemporaryDirectory whose with block was never entered is removed
\* only by its finalizer, which can run once the failed call's frame is released,
\* that is at some moment after the exception has reached the caller, or never.
RunFinalizer(i) ==
  /\ pc[i] = "raised"
  /\ finalizer[i]
  /\ fs' = Cleanup(fs, tempdir[i])
  /\ finalizer' = [finalizer EXCEPT ![i] = FALSE]
  /\ UNCHANGED <<datastore, req, pc, tempdir, store, trace, locals, ret, err, failed_at>>

Next ==
  \E i \in Invocations :
    \/ CheckDatastore(i)
    \/ CheckInputs(i)
    \/ MakeTempdir(i)
    \/ LogProgress(i)
    \/ DownloadProtein(i)
    \/ DownloadLigand(i)
    \/ NewPoseGenerator(i)
    \/ GeneratePoses(i)
    \/ ValidateResults(i)
    \/ FormatResults(i)
    \/ Upload(i)
    \/ CheckUpload(i)
    \/ Return(i)
    \/ RunFinalizer(i)

Spec == Init /\ [][Next]_vars

\* Two invocations of generate_pose running concurrently (one thread each) against
\* the same datastore and filesystem, both with a datastore and both addresses.
ConcurrentRequests == {r \in Requests : r.protein_address = "p1" /\ r.ligand_address = "l1"
                                        /\ r.num_modes \in {1, DefaultNumModes}}

InitConcurrent ==
  /\ datastore = "ds"
  /\ req \in [Invocations -> ConcurrentRequests]
  /\ pc = [i \in Invocations |-> "start"]
  /\ tempdir = [i \in Invocations |-> None]
  /\ finalizer = [i \in Invocations |-> FALSE]
  /\ fs = {}
  /\ store = {}
  /\ trace = [i \in Invocations |-> <<>>]
  /\ complexes = [i \in Invocations |-> <<>>]
  /\ scores = [i \in Invocations |-> <<>>]
  /\ actual_modes = [i \in Invocations |-> 0]
  /\ scores_formatted = [i \in Invocations |-> <<>>]
  /\ results = [i \in Invocations |-> MakeResults(0, <<>>, <<>>)]
  /\ result_address = [i \in Invocations |-> None]
  /\ ret = [i \in Invocations |-> None]
  /\ err = [i \in Invocations |-> NoException]
  /\ failed_at = [i \in Invocations |-> ""]

\* In the concurrent runs the generator returns at most MaxConcurrentPoses
\* complexes and scores.
NextConcurrent ==
  \E i \in Invocations :
    \/ CheckDatastore(i)
    \/ CheckInputs(i)
    \/ MakeTempdir(i)
    \/ LogProgress(i)
    \/ DownloadProtein(i)
    \/ DownloadLigand(i)
    \/ NewPoseGenerator(i)
    \/ /\ GeneratePoses(i)
       /\ Len(complexes'[i]) <= MaxConcurrentPoses
       /\ Len(scores'[i]) <= MaxConcurrentPoses
    \/ ValidateResults(i)
    \/ FormatResults(i)
    \/ Upload(i)
    \/ CheckUpload(i)
    \/ Return(i)
    \/ RunFinalizer(i)

SpecConcurrent == InitConcurrent /\ [][NextConcurrent]_vars

\* ------------------------------------------------------------------ claims

\* The invocation has finished: it returned or an exception reached the caller.
Finished(i) == pc[i] \in {"returned", "raised"}

\* The positions in trace[i] of the calls of op.
CallsOf(i, op) == {k \in DOMAIN trace[i] : trace[i][k].op = op}

\* The objects the datastore holds from invocation i.
StoredBy(i) == {o \in store : o.by = i}

\* generate_poses returned; what it returned.
Generated(i) == \E k \in CallsOf(i, "generate_poses") : trace[i][k].ok
GenComplexes(i) == trace[i][CHOOSE k \in CallsOf(i, "generate_poses") : trace[i][k].ok].result[1]
GenScores(i) == trace[i][CHOOSE k \in CallsOf(i, "generate_poses") : trace[i][k].ok].result[2]

\* C1: whenever an invocation that acquired a scratch directory has finished
\* (returned, or failed at any step), the scratch directory no longer exists.
C1_ScratchRemovedOnEveryExit ==
  \A i \in Invocations :
    (Finished(i) /\ tempdir[i] # None) => <<tempdir[i]>> \notin fs

\* C2 (as stated): every failure reaches the caller as the generic Exception whose
\* message is "VINA docking failed: " followed by the original message.
C2_EveryFailureWrapped ==
  \A i \in Invocations :
    pc[i] = "raised" =>
      /\ err[i].type = "Exception"
      /\ err[i].msg = "VINA docking failed: " \o err[i].context.msg

\* C2 (amended): a failure raised inside the try block reaches the caller as the
\* generic Exception with message "VINA docking failed: " + the original message;
\* the two precondition failures (no datastore, missing address) are raised before
\* the try block and reach the caller as ValueError with the message unprefixed.
C2_FailuresInsideTryWrapped ==
  \A i \in Invocations :
    pc[i] = "raised" =>
      /\ failed_at[i] = "start" =>
           /\ datastore = None
           /\ err[i].type = "ValueError"
           /\ err[i].msg = "Datastore not set"
      /\ failed_at[i] = "check_inputs" =>
           /\ err[i].type = "ValueError"
           /\ err[i].msg = "Protein and/or ligand input is required."
      /\ failed_at[i] \notin {"start", "check_inputs"} =>
           /\ err[i].type = "Exception"
           /\ err[i].context.type \in {"OSError", "RuntimeError", "ValueError"}
           /\ err[i].msg = "VINA docking failed: " \o err[i].context.msg
           /\ failed_at[i] = "validate" =>
                err[i].msg \in {"VINA docking failed: No docking poses or scores generated",
                                "VINA docking failed: No valid docking results generated"}
           /\ failed_at[i] = "check_upload" =>
                err[i].msg = "VINA docking failed: Failed to upload docking results to datastore"

\* C2 witness: a download failure reached the caller wrapped.
C2_Witness ==
  \E i \in Invocations :
    /\ pc[i] = "raised"
    /\ failed_at[i] = "dl_ligand"
    /\ err[i].msg = "VINA docking failed: storage error"

\* C3: a failed invocation has left no object in the datastore, and an invocation
\* that returned has left exactly one, the validated result.
C3_NoPartialSuccess ==
  \A i \in Invocations :
    /\ pc[i] = "raised" => StoredBy(i) = {}
    /\ pc[i] = "returned" =>
         /\ Cardinality(StoredBy(i)) = 1
         /\ \A o \in StoredBy(i) : o.address = ret[i] /\ o.data.num_modes # 0

\* C4: with a datastore configured and protein_address or ligand_address empty or
\* absent, the invocation fails at the address check: no scratch directory, no
\* progress event, no download, no pose generator, no upload.
C4_MissingAddressFailsBeforeDownload ==
  \A i \in Invocations :
    ( /\ pc[i] # "idle"
      /\ datastore # None
      /\ \/ req[i].protein_address \in {None, ""}
         \/ req[i].ligand_address \in {None, ""} ) =>
      /\ pc[i] \in {"start", "check_inputs", "raised"}
      /\ pc[i] = "raised" => failed_at[i] = "check_inputs"
      /\ trace[i] = <<>>
      /\ tempdir[i] = None
      /\ StoredBy(i) = {}

\* C4 witness: an invocation with a datastore, a protein address and an absent
\* ligand address has failed.
C4_Witness ==
  \E i \in Invocations :
    /\ pc[i] = "raised"
    /\ datastore # None
    /\ req[i].protein_address = "p1"
    /\ req[i].ligand_address = None

\* C5: once generate_poses has returned empty complexes or empty scores, the
\* invocation fails at validation and upload_data_from_memory is never called.
C5_EmptyResultsNeverUploaded ==
  \A i \in Invocations :
    (Generated(i) /\ (Len(GenComplexes(i)) = 0 \/ Len(GenScores(i)) = 0)) =>
      /\ pc[i] \in {"validate", "raised"}
      /\ pc[i] = "raised" => failed_at[i] = "validate"
      /\ CallsOf(i, "upload_data_from_memory") = {}
      /\ StoredBy(i) = {}

\* C5 witness: the generator returned complexes but no scores, and the invocation
\* has failed.
C5_Witness ==
  \E i \in Invocations :
    /\ pc[i] = "raised"
    /\ Generated(i)
    /\ Len(GenComplexes(i)) = 2
    /\ Len(GenScores(i)) = 0

\* The keys "mode 1", "mode 2", ... as the result document spells them.
ExpectedKeys ==
  <<"mode 1", "mode 2", "mode 3", "mode 4", "mode 5", "mode 6", "mode 7", "mode 8", "mode 9">>

\* The least of a non-empty finite set of integers.
Least(S) == CHOOSE x \in S : \A y \in S : x <= y

\* The results argument of the upload call at position k of trace[i].
Uploaded(i, k) == trace[i][k].args[1]

\* C6: when the generator returned at least one complex and one score and
\* num_modes >= 1, the scores mapping handed to upload has exactly
\* min(num_modes, len(complexes), len(scores)) entries, keyed "mode 1", "mode 2", ...
\* in that order, and entry "mode j" carries the generator's j-th score as a float.
C6_ScoresMappingExact ==
  \A i \in Invocations :
    \A k \in CallsOf(i, "upload_data_from_memory") :
      (Len(GenComplexes(i)) >= 1 /\ Len(GenScores(i)) >= 1 /\ req[i].num_modes >= 1) =>
        LET m == Least({req[i].num_modes, Len(GenComplexes(i)), Len(GenScores(i))})
            sf == Uploaded(i, k).scores
        IN /\ Len(sf) = m
           /\ \A j \in 1 .. m :
                /\ sf[j][1] = ExpectedKeys[j]
                /\ sf[j][2].affinity.ty = "float"
                /\ sf[j][2].affinity.v = GenScores(i)[j].v

\* C6 witness: two differing scores were returned and both were uploaded, in order.
C6_Witness ==
  \E i \in Invocations :
    \E k \in CallsOf(i, "upload_data_from_memory") :
      /\ req[i].num_modes >= 2
      /\ Len(GenScores(i)) = 2
      /\ GenScores(i)[1].v = -6
      /\ GenScores(i)[2].v = -7
      /\ Len(Uploaded(i, k).scores) = 2
      /\ Uploaded(i, k).scores[2][1] = "mode 2"

\* C7: the num_modes field of every result handed to upload exceeds neither the
\* requested num_modes nor the number of complexes nor the number of scores; and
\* when the generator returned fewer (but some) complexes or scores than requested,
\* validation does not fail and the result handed to upload reports the smaller
\* count.
C7_NumModesClamped ==
  \A i \in Invocations :
    /\ \A k \in CallsOf(i, "upload_data_from_memory") :
         /\ Uploaded(i, k).num_modes <= req[i].num_modes
         /\ Uploaded(i, k).num_modes <= Len(GenComplexes(i))
         /\ Uploaded(i, k).num_modes <= Len(GenScores(i))
    /\ ( /\ Generated(i)
         /\ Len(GenComplexes(i)) >= 1
         /\ Len(GenScores(i)) >= 1
         /\ \/ Len(GenComplexes(i)) < req[i].num_modes
            \/ Len(GenScores(i)) < req[i].num_modes ) =>
         /\ failed_at[i] # "validate"
         /\ pc[i] = "raised" => failed_at[i] \in {"log50", "log60", "log90", "upload",
                                                   "check_upload", "log100"}
         /\ \A k \in CallsOf(i, "upload_data_from_memory") :
              /\ Uploaded(i, k).num_modes = Least({Len(GenComplexes(i)), Len(GenScores(i))})
              /\ Uploaded(i, k).num_modes < req[i].num_modes

\* C7 witness: 9 modes requested, 2 complexes and 2 scores generated, and the
\* invocation returned after uploading a result that reports 2 modes.
C7_Witness ==
  \E i \in Invocations :
    /\ pc[i] = "returned"
    /\ req[i].num_modes = 9
    /\ Len(GenComplexes(i)) = 2
    /\ Len(GenScores(i)) = 2
    /\ \E o \in StoredBy(i) : o.data.num_modes = 2

\* C8: when complexes and scores are both non-empty and num_modes = 0, the
\* invocation fails at validation with "No valid docking results generated", no
\* upload is attempted, and a validation failure for empty complexes or scores
\* never carries that message.
C8_ZeroModesDistinctFailure ==
  \A i \in Invocations :
    /\ ( /\ Generated(i)
         /\ Len(GenComplexes(i)) >= 1
         /\ Len(GenScores(i)) >= 1
         /\ req[i].num_modes = 0 ) =>
         /\ pc[i] \in {"validate", "raised"}
         /\ pc[i] = "raised" =>
              /\ failed_at[i] = "validate"
              /\ err[i].context.msg = "No valid docking results generated"
         /\ CallsOf(i, "upload_data_from_memory") = {}
    /\ ( /\ pc[i] = "raised"
         /\ failed_at[i] = "validate"
         /\ Len(GenComplexes(i)) = 0 \/ Len(GenScores(i)) = 0 ) =>
         /\ err[i].context.msg = "No docking poses or scores generated"
         /\ err[i].context.msg # "No valid docking results generated"

\* C8 witness: num_modes = 0 with one complex and one score has failed.
C8_Witness ==
  \E i \in Invocations :
    /\ pc[i] = "raised"
    /\ req[i].num_modes = 0
    /\ Generated(i)
    /\ Len(GenComplexes(i)) = 1
    /\ Len(GenScores(i)) = 1

\* The four collaborator calls of C9, in the order of the code, each given by its
\* operation and the position it is made at.
LinearOrder ==
  <<[op |-> "download_object", at |-> "dl_protein"],
    [op |-> "download_object", at |-> "dl_ligand"],
    [op |-> "generate_poses", at |-> "generate"],
    [op |-> "upload_data_from_memory", at |-> "upload"]>>

\* The download, generation and upload calls of trace[i], in order.
RECURSIVE MainCalls(_)
MainCalls(tr) ==
  IF tr = <<>> THEN <<>>
  ELSE IF Head(tr).op \in {"download_object", "generate_poses", "upload_data_from_memory"}
       THEN <<Head(tr)>> \o MainCalls(Tail(tr))
       ELSE MainCalls(Tail(tr))

\* C9: the download, generation and upload calls of an invocation form a prefix of
\* protein download, ligand download, generate_poses, upload (so each happens at
\* most once, in that order); every call but the last one made completed without
\* failure; a call that failed is the failure the invocation ended with; after a
\* validation failure no upload was made; and an invocation that returned made all
\* four.
C9_LinearNoRetry ==
  \A i \in Invocations :
    LET mc == MainCalls(trace[i])
    IN /\ Len(mc) <= 4
       /\ \A k \in DOMAIN mc :
            /\ mc[k].op = LinearOrder[k].op
            /\ mc[k].at = LinearOrder[k].at
       /\ Len(mc) >= 1 => mc[1].args[1] = req[i].protein_address
       /\ Len(mc) >= 2 => mc[2].args[1] = req[i].ligand_address
       /\ \A k \in DOMAIN trace[i] :
            \/ trace[i][k].ok
            \/ k = Len(trace[i]) /\ pc[i] = "raised" /\ failed_at[i] = trace[i][k].at
       /\ (pc[i] = "raised" /\ failed_at[i] = "validate") => Len(mc) = 3
       /\ pc[i] = "returned" => Len(mc) = 4 /\ \A k \in DOMAIN trace[i] : trace[i][k].ok

\* C9 witness: the ligand download failed after the protein download succeeded.
C9_Witness ==
  \E i \in Invocations :
    /\ pc[i] = "raised"
    /\ Len(MainCalls(trace[i])) = 2
    /\ MainCalls(trace[i])[1].ok
    /\ ~MainCalls(trace[i])[2].ok

\* The log_progress calls of trace[i] that report 100 percent.
Log100Calls(i) == {k \in CallsOf(i, "log_progress") : trace[i][k].args[2] = 100}

\* C10: once upload has returned no address the invocation fails at the address
\* check and 100% is never reported; 100% is reported only after an upload call
\* that returned an address; the value returned is the address upload returned.
C10_UploadAddress ==
  \A i \in Invocations :
    /\ \A k \in CallsOf(i, "upload_data_from_memory") :
         (trace[i][k].ok /\ trace[i][k].result = None) =>
           /\ pc[i] \in {"check_upload", "raised"}
           /\ pc[i] = "raised" => failed_at[i] = "check_upload"
           /\ Log100Calls(i) = {}
    /\ \A k \in Log100Calls(i) :
         \E j \in CallsOf(i, "upload_data_from_memory") :
           j < k /\ trace[i][j].ok /\ trace[i][j].result # None
    /\ pc[i] = "returned" =>
         \E j \in CallsOf(i, "upload_data_from_memory") :
           trace[i][j].ok /\ ret[i] = trace[i][j].result /\ ret[i] # None

\* C10 witness: upload returned no address and the invocation has failed.
C10_Witness ==
  \E i \in Invocations :
    /\ pc[i] = "raised"
    /\ \E k \in CallsOf(i, "upload_data_from_memory") :
         trace[i][k].ok /\ trace[i][k].result = None

\* Invocation i holds a scratch directory: it made one and has not removed it.
Holding(i) == tempdir[i] # None /\ finalizer[i]

\* The paths invocation i wrote through its own collaborator calls.
WrittenBy(i) ==
  {trace[i][k].args[2] : k \in {j \in CallsOf(i, "download_object") : trace[i][j].ok}}
    \cup {PathJoin(trace[i][k].args[4], "poses") :
             k \in {j \in CallsOf(i, "generate_poses") : trace[i][j].ok}}

\* The result generate_pose uploads for request r when the generator returns c
\* and s (num_modes >= 1, c and s non-empty), as section 4.1 of the spec gives it.
SoloResult(r, c, s) ==
  LET m == Least({r.num_modes, Len(c), Len(s)})
  IN [docking_method |-> "VINA", num_modes |-> m,
      scores |-> [j \in 1 .. m |->
                    <<ExpectedKeys[j], [affinity |-> [ty |-> "float", v |-> s[j].v]]>>],
      complexes_count |-> Len(c), message |-> "VINA docking completed successfully"]

\* The outcome of invocation i is the one its own request and the answers to its
\* own collaborator calls give when it runs alone.
SoloOutcome(i) ==
  LET tr == trace[i]
      ups == CallsOf(i, "upload_data_from_memory")
  IN /\ pc[i] = "returned" =>
          /\ \A k \in DOMAIN tr : tr[k].ok
          /\ \E k \in ups :
               /\ ret[i] = tr[k].result
               /\ ret[i] # None
               /\ Uploaded(i, k) = SoloResult(req[i], GenComplexes(i), GenScores(i))
               /\ StoredBy(i) = {[address |-> ret[i], name |-> req[i].output \o "_results.json",
                                  data |-> Uploaded(i, k), card |-> tr[k].args[3], by |-> i]}
     /\ pc[i] = "raised" =>
          IF tr # <<>> /\ ~tr[Len(tr)].ok
          THEN /\ failed_at[i] = tr[Len(tr)].at
               /\ err[i].type = "Exception"
               /\ err[i].context \in CollabErrors
               /\ err[i].msg = "VINA docking failed: " \o err[i].context.msg
          ELSE IF ups = {}
          THEN /\ Generated(i)
               /\ IF Len(GenComplexes(i)) = 0 \/ Len(GenScores(i)) = 0
                  THEN err[i].msg = "VINA docking failed: No docking poses or scores generated"
                  ELSE /\ req[i].num_modes = 0
                       /\ err[i].msg = "VINA docking failed: No valid docking results generated"
          ELSE /\ \A k \in ups : tr[k].result = None
               /\ err[i].msg = "VINA docking failed: Failed to upload docking results to datastore"

\* C11: concurrent invocations hold different scratch directories; while an
\* invocation holds its directory, the directory exists and contains exactly what
\* that invocation's own calls wrote (no other invocation wrote or deleted
\* there); and the outcome of each invocation is its outcome when run alone.
C11_IsolatedScratch ==
  /\ \A i, j \in Invocations :
       (i # j /\ Holding(i) /\ Holding(j)) => tempdir[i] # tempdir[j]
  /\ \A i \in Invocations :
       Holding(i) => {p \in fs : p[1] = tempdir[i]} = {<<tempdir[i]>>} \cup WrittenBy(i)
  /\ \A i \in Invocations : SoloOutcome(i)

\* C11 witness: both invocations are inside generate_pose, each with its own
\* scratch directory filled: one about to upload, the other about to generate.
C11_Witness ==
  /\ pc[1] = "upload"
  /\ pc[2] = "generate"
  /\ tempdir[1] # tempdir[2]
  /\ PathJoin(tempdir[1], "poses") \in fs
  /\ PathJoin(tempdir[2], "ligand.sdf") \in fs

\* The percentages of the log_progress calls of trace[i] that returned, in order.
RECURSIVE Percents(_)
Percents(tr) ==
  IF tr = <<>> THEN <<>>
  ELSE IF Head(tr).op = "log_progress" /\ Head(tr).ok
       THEN <<Head(tr).args[2]>> \o Percents(Tail(tr))
       ELSE Percents(Tail(tr))

\* s is a prefix of t.
IsPrefix(s, t) == Len(s) <= Len(t) /\ \A k \in DOMAIN s : s[k] = t[k]

\* The percentages are strictly increasing and within 0..100.
Increasing(s) ==
  /\ \A k \in DOMAIN s : s[k] \in 0 .. 100
  /\ \A k \in DOMAIN s : k > 1 => s[k - 1] < s[k]

\* The checkpoints as C12 lists them, and as the code reports them.
ClaimedCheckpoints == <<10, 20, 30, 40, 60, 90, 100>>
CodeCheckpoints == <<10, 20, 30, 40, 50, 60, 90, 100>>

\* The number of checkpoints that precede each step that can fail.
ReportedBefore ==
  [start |-> 0, check_inputs |-> 0, mktemp |-> 0, log10 |-> 0,
   dl_protein |-> 1, log20 |-> 1, dl_ligand |-> 2, log30 |-> 2,
   new_pg |-> 3, log40 |-> 3, generate |-> 4, validate |-> 4, log50 |-> 4,
   log60 |-> 5, log90 |-> 6, upload |-> 7, check_upload |-> 7, log100 |-> 7]

\* C12 (as stated): the reported percentages increase strictly within 0..100; a
\* run that returned reported 10, 20, 30, 40, 60, 90, 100; a run that failed
\* reported a prefix of that sequence.
C12_CheckpointsAsClaimed ==
  \A i \in Invocations :
    /\ Increasing(Percents(trace[i]))
    /\ pc[i] = "returned" => Percents(trace[i]) = ClaimedCheckpoints
    /\ pc[i] = "raised" => IsPrefix(Percents(trace[i]), ClaimedCheckpoints)

\* C12 (amended): the reported percentages increase strictly within 0..100; a
\* run that returned reported 10, 20, 30, 40, 50, 60, 90, 100; at any moment, and
\* so in a run that failed, the reported percentages are a prefix of that
\* sequence, and a failed run's end at the checkpoint preceding the failing step.
C12_Checkpoints ==
  \A i \in Invocations :
    /\ Increasing(Percents(trace[i]))
    /\ IsPrefix(Percents(trace[i]), CodeCheckpoints)
    /\ pc[i] = "returned" => Percents(trace[i]) = CodeCheckpoints
    /\ pc[i] = "raised" => Len(Percents(trace[i])) = ReportedBefore[failed_at[i]]

\* C12 witness: a run failed at validation after reporting 10, 20, 30, 40.
C12_Witness ==
  \E i \in Invocations :
    /\ pc[i] = "raised"
    /\ failed_at[i] = "validate"
    /\ Percents(trace[i]) = <<10, 20, 30, 40>>

\* C13: with no datastore configured the invocation fails at the datastore check
\* with "Datastore not set", whatever the addresses are: no scratch directory, no
\* progress event, no collaborator call.
C13_DatastoreCheckedFirst ==
  \A i \in Invocations :
    (pc[i] # "idle" /\ datastore = None) =>
      /\ pc[i] \in {"start", "raised"}
      /\ pc[i] = "raised" =>
           /\ failed_at[i] = "start"
           /\ err[i].msg = "Datastore not set"
      /\ trace[i] = <<>>
      /\ tempdir[i] = None
      /\ StoredBy(i) = {}

\* C13 witness: no datastore and an empty protein address: the datastore error.
C13_Witness ==
  \E i \in Invocations :
    /\ pc[i] = "raised"
    /\ datastore = None
    /\ req[i].protein_address = ""
    /\ err[i].msg = "Datastore not set"

\* C14: complexes_count of every result handed to upload is the number of
\* complexes the generator returned, hence at least the result's num_modes.
C14_ComplexesCountUnclamped ==
  \A i \in Invocations :
    \A k \in CallsOf(i, "upload_data_from_memory") :
      /\ Uploaded(i, k).complexes_count = Len(GenComplexes(i))
      /\ Uploaded(i, k).complexes_count >= Uploaded(i, k).num_modes

\* C14 witness: a result with complexes_count 2, num_modes 1 and one score entry.
C14_Witness ==
  \E i \in Invocations :
    \E k \in CallsOf(i, "upload_data_from_memory") :
      /\ Uploaded(i, k).complexes_count = 2
      /\ Uploaded(i, k).num_modes = 1
      /\ Len(Uploaded(i, k).scores) = 1

\* C15: every result handed to upload has num_modes >= 1 and as many entries in
\* its scores mapping; a request whose clamped count is not positive makes no
\* upload call.
C15_UploadedModesPositive ==
  \A i \in Invocations :
    \A k \in CallsOf(i, "upload_data_from_memory") :
      /\ Uploaded(i, k).num_modes >= 1
      /\ Uploaded(i, k).num_modes = Len(Uploaded(i, k).scores)
      /\ Least({req[i].num_modes, Len(GenComplexes(i)), Len(GenScores(i))}) >= 1

\* The invocation is between acquiring its scratch directory and finishing.
Running(i) == tempdir[i] # None /\ ~Finished(i)

\* C16: the scratch directory exists from its acquisition until the invocation
\* finishes, in particular at both downloads, at generate_poses and at upload; it
\* is gone only once the invocation has finished, and after a return only with
\* the upload call having returned.
C16_ScratchHeldWhileUsed ==
  \A i \in Invocations :
    /\ pc[i] \in {"log10", "dl_protein", "log20", "dl_ligand", "log30", "new_pg",
                  "log40", "generate", "validate", "log50", "log60", "format",
                  "log90", "upload", "check_upload", "log100", "return"} =>
         /\ tempdir[i] # None
         /\ <<tempdir[i]>> \in fs
    /\ pc[i] \in {"dl_ligand", "log30", "new_pg", "log40", "generate"} =>
         PathJoin(tempdir[i], "protein.pdb") \in fs
    /\ pc[i] = "generate" => PathJoin(tempdir[i], "ligand.sdf") \in fs
    /\ (tempdir[i] # None /\ <<tempdir[i]>> \notin fs) =>
         /\ Finished(i)
         /\ pc[i] = "returned" =>
              \E k \in CallsOf(i, "upload_data_from_memory") :
                k < Len(trace[i]) /\ trace[i][k].ok

\* C16 witness: at the upload call the scratch directory holds the downloaded
\* files and the generator's output.
C16_Witness ==
  \E i \in Invocations :
    /\ pc[i] = "upload"
    /\ {<<tempdir[i]>>, PathJoin(tempdir[i], "protein.pdb"),
        PathJoin(tempdir[i], "ligand.sdf"), PathJoin(tempdir[i], "poses")} \subseteq fs

====
